---- MODULE Spec2Model ----
(***************************************************************************)
(* trix: the LLM provider adapters (Anthropic, OpenAI, Mistral) behind the *)
(* Client interface, and the agent loop that drives them.                  *)
(*                                                                         *)
(* Four specifications share the variables below:                          *)
(*   SpecNew     client construction from the process environment          *)
(*   SpecEncode  the request-building half of Chat, up to the HTTP POST    *)
(*   Spec        the response half of Chat, from the HTTP reply on         *)
(*   SpecLoop    the agent loop and the interactive session                *)
(* The two halves of Chat meet only in the HTTP round trip: the reply is   *)
(* the vendor's choice, so each half is explored over all of its inputs.   *)
(***************************************************************************)
EXTENDS Integers, Sequences, FiniteSets, TLC

VARIABLES
    env,        \* process environment: credential variable -> value
    client,     \* the client a constructor returned
    newErr,     \* the error a constructor returned
    chatIn,     \* Chat's arguments (vendor, messages, tools)
    request,    \* the outbound request body on the wire
    httpReply,  \* what the HTTP round trip produced
    result,     \* what Chat returned: (*Response, error), or a panic
    conv,       \* ConversationState: the message sequence
    cumUsage,   \* ConversationState: the cumulative Usage
    phase,      \* the agent loop's state
    cap,        \* the configured maximum number of tool-calling turns
    turns,      \* tool-calling turns completed in the current run
    pending,    \* the tool calls of the Response being served
    results,    \* tool call position -> result text, as handlers finish
    outcome,    \* what the last run reported to the session
    runStart,   \* length of conv when the current run made its first call
    runLog,     \* history: the provider's answers in the current run
    usageLog,   \* history: the Usage of every Response since the last clear
    nCalls,     \* provider calls made in the session
    runs,       \* user lines entered in the session
    event       \* the step taken last

chatVars == <<env, client, newErr, chatIn, request, httpReply, result>>
loopVars ==
    <<conv, cumUsage, phase, cap, turns, pending, results, outcome, runStart,
      runLog, usageLog, nCalls, runs, event>>
vars == <<chatVars, loopVars>>

Vendors == {"anthropic", "openai", "mistral"}

(***************************************************************************)
(* JSON text, as a sequence of tokens.  encoding/json is modelled by what  *)
(* it does on such texts: Marshal writes an object with its keys sorted,   *)
(* Unmarshal checks the syntax of the whole text before it stores anything.*)
(***************************************************************************)
Tok(k, s) == [k |-> k, s |-> s]
LBrace == Tok("punct", "{")
RBrace == Tok("punct", "}")
LBracket == Tok("punct", "[")
RBracket == Tok("punct", "]")
Colon == Tok("punct", ":")
Comma == Tok("punct", ",")
NullTok == Tok("lit", "null")
BadTok == Tok("bad", "not-json")

\* The values a decoded interface{} holds (JSON numbers decode to float64).
GoStr(s) == [t |-> "string", v |-> s]
GoNum(n) == [t |-> "float64", v |-> n]
GoNil == [t |-> "nil", v |-> ""]

\* A map[string]interface{}: nil, or a set of <<key, value>> pairs.
NilMap == [nil |-> TRUE, kv |-> {}]
MakeMap(kv) == [nil |-> FALSE, kv |-> kv]
EmptyMap == MakeMap({})
MapLen(m) == Cardinality(m.kv)

IsScalarTok(t) == t.k \in {"str", "num"} \/ t = NullTok

ScalarTok(x) ==
    CASE x.t = "string" -> Tok("str", x.v)
      [] x.t = "float64" -> Tok("num", x.v)
      [] OTHER -> NullTok

TokScalar(t) ==
    CASE t.k = "str" -> GoStr(t.s)
      [] t.k = "num" -> GoNum(t.s)
      [] OTHER -> GoNil

\* The keys of the tool parameters, in the order json.Marshal writes them.
SortedKeys == <<"limit", "severity">>

\* A Marshal that stops after the first member it writes.
MarshalMembersFirstOnly(kv, ks) ==
    LET present == {i \in 1..Len(ks) : \E p \in kv : p[1] = ks[i]}
    IN IF present = {} THEN <<>>
       ELSE LET first == CHOOSE i \in present : \A j \in present : i <= j
                p == CHOOSE q \in kv : q[1] = ks[first]
            IN <<Tok("str", p[1]), Colon, ScalarTok(p[2])>>

RECURSIVE MarshalMembers(_, _)
MarshalMembers(kv, ks) ==
    IF ks = <<>> THEN <<>>
    ELSE LET here == {p \in kv : p[1] = Head(ks)}
             rest == MarshalMembers(kv, Tail(ks))
         IN IF here = {} THEN rest
            ELSE LET p == CHOOSE q \in here : TRUE
                     me == <<Tok("str", p[1]), Colon, ScalarTok(p[2])>>
                 IN IF rest = <<>> THEN me ELSE me \o <<Comma>> \o rest

\* json.Marshal of a map[string]interface{}: a nil map is written as null.
MarshalMap(m) ==
    IF m.nil THEN <<NullTok>>
    ELSE <<LBrace>> \o MarshalMembers(m.kv, SortedKeys) \o <<RBrace>>

ScanFail == [ok |-> FALSE, kv |-> {}]

\* The members of an object from position i on: key : scalar, then , or }.
\* A repeated key overwrites the earlier value, as the decoder's store does.
RECURSIVE ScanMembers(_, _, _)
ScanMembers(text, i, kv) ==
    IF i + 3 > Len(text) THEN ScanFail
    ELSE IF ~(text[i].k = "str" /\ text[i + 1] = Colon /\ IsScalarTok(text[i + 2]))
    THEN ScanFail
    ELSE LET kv2 == {p \in kv : p[1] # text[i].s}
                        \cup {<<text[i].s, TokScalar(text[i + 2])>>}
         IN IF text[i + 3] = RBrace
            THEN (IF i + 3 = Len(text) THEN [ok |-> TRUE, kv |-> kv2] ELSE ScanFail)
            ELSE IF text[i + 3] = Comma THEN ScanMembers(text, i + 4, kv2)
            ELSE ScanFail

ScanObject(text) ==
    IF Len(text) = 2 /\ text[2] = RBrace THEN [ok |-> TRUE, kv |-> {}]
    ELSE ScanMembers(text, 2, {})

RECURSIVE ScanElements(_, _)
ScanElements(text, i) ==
    IF i + 1 > Len(text) THEN FALSE
    ELSE IF ~IsScalarTok(text[i]) THEN FALSE
    ELSE IF text[i + 1] = RBracket THEN i + 1 = Len(text)
    ELSE IF text[i + 1] = Comma THEN ScanElements(text, i + 2)
    ELSE FALSE

\* json.Valid: a scalar, an object of scalars or an array of scalars.
ValidJSON(text) ==
    IF text = <<>> THEN FALSE
    ELSE IF text[1] = LBrace THEN ScanObject(text).ok
    ELSE IF text[1] = LBracket
    THEN (Len(text) = 2 /\ text[2] = RBracket) \/ ScanElements(text, 2)
    ELSE Len(text) = 1 /\ IsScalarTok(text[1])

\* json.Unmarshal(text, &params) with params a nil map[string]interface{}:
\* a syntax error or a value that is no object is an error and leaves params
\* nil; null is no error and leaves params nil; an object fills a new map.
UnmarshalMap(text) ==
    IF ~ValidJSON(text) THEN [err |-> TRUE, val |-> NilMap]
    ELSE IF text[1] = LBrace
    THEN [err |-> FALSE, val |-> MakeMap(ScanObject(text).kv)]
    ELSE IF text = <<NullTok>> THEN [err |-> FALSE, val |-> NilMap]
    ELSE [err |-> TRUE, val |-> NilMap]

\* var params map[string]interface{}
\* if err := json.Unmarshal(..., &params); err != nil { params = make(...) }
ParseArguments(text) ==
    LET r == UnmarshalMap(text)
    IN IF r.err THEN EmptyMap ELSE r.val

(***************************************************************************)
(* The canonical model (client.go).                                        *)
(***************************************************************************)
ToolCall(id, name, params) == [ID |-> id, Name |-> name, Parameters |-> params]
Usage(in, out) == [InputTokens |-> in, OutputTokens |-> out]
Response(content, calls, usage) ==
    [Content |-> content, ToolCalls |-> calls, Usage |-> usage]
\* &Response{}
ZeroResponse == Response("", <<>>, Usage(0, 0))

\* An error value: the format string of its text, and what fills the format.
NoErr == [format |-> "", status |-> 0, detail |-> ""]
Error(format, status, detail) == [format |-> format, status |-> status, detail |-> detail]

\* Chat's (*Response, error); NoResult before it has returned.
NoResult == [kind |-> "none", resp |-> ZeroResponse, err |-> NoErr]
Ok(resp) == [kind |-> "ok", resp |-> resp, err |-> NoErr]
Fail(err) == [kind |-> "err", resp |-> ZeroResponse, err |-> err]
\* A runtime panic unwinds Chat: neither a Response nor an error is returned.
Panic == [kind |-> "panic", resp |-> ZeroResponse, err |-> NoErr]

StatusOK == 200

(***************************************************************************)
(* Client construction: the credential is read from the environment.       *)
(***************************************************************************)
CredVar(v) ==
    CASE v = "anthropic" -> "ANTHROPIC_API_KEY"
      [] v = "mistral" -> "MISTRAL_API_KEY"
      [] OTHER -> "OPENAI_API_KEY"
CredVars == {CredVar(v) : v \in Vendors}
Unset == "<unset>"
EnvValues == {Unset, "", "sk-1"}
Models == {"", "custom-model"}

\* os.Getenv: the empty string for a variable that is unset.
Getenv(e, name) == IF e[name] = Unset THEN "" ELSE e[name]

NoClient == [vendor |-> "", apiKey |-> "", model |-> ""]
Client(v, key, model) == [vendor |-> v, apiKey |-> key, model |-> model]
NotSet(name) == name \o " environment variable not set"

\* (client, error) as the constructor returns them.
NewAnthropicClient(e, model) ==
    LET apiKey == Getenv(e, "ANTHROPIC_API_KEY")
    IN IF apiKey = "" THEN [client |-> NoClient, err |-> NotSet("ANTHROPIC_API_KEY")]
       ELSE [client |-> Client("anthropic", apiKey,
                               IF model = "" THEN "claude-sonnet-4-20250514" ELSE model),
             err |-> ""]

NewMistralClient(e, model) ==
    LET apiKey == Getenv(e, "MISTRAL_API_KEY")
    IN IF apiKey = "" THEN [client |-> NoClient, err |-> NotSet("MISTRAL_API_KEY")]
       ELSE [client |-> Client("mistral", apiKey,
                               IF model = "" THEN "mistral-large-latest" ELSE model),
             err |-> ""]

\* openai.NewClient() takes its key from the environment, if there is one,
\* and reports nothing; the constructor always returns a nil error.
NewOpenAIClient(e) ==
    [client |-> Client("openai", Getenv(e, "OPENAI_API_KEY"), "gpt-4o"), err |-> ""]

FullEnv == [n \in CredVars |-> "sk-1"]
ClientOf(v) ==
    CASE v = "anthropic" -> NewAnthropicClient(FullEnv, "").client
      [] v = "mistral" -> NewMistralClient(FullEnv, "").client
      [] OTHER -> NewOpenAIClient(FullEnv).client

(***************************************************************************)
(* The request half of Chat.  A request body is the JSON object on the     *)
(* wire: the set of its members' names, and their values.                  *)
(***************************************************************************)
Message(role, content, id, calls) ==
    [Role |-> role, Content |-> content, ToolCallID |-> id, ToolCalls |-> calls]
Tool(name, description, parameters) ==
    [Name |-> name, Description |-> description, Parameters |-> parameters]

NoCall == [vendor |-> "", messages |-> <<>>, tools |-> <<>>]
Wire(fields, model, system, messages, tools, choice) ==
    [fields |-> fields, model |-> model, system |-> system, messages |-> messages,
     tools |-> tools, tool_choice |-> choice]
NoRequest == Wire({}, "", "", <<>>, <<>>, "")

\* {"id":..,"type":"function","function":{"name":..,"arguments":<JSON text>}}
FunctionCallsOf(calls) ==
    [i \in 1..Len(calls) |->
        [id |-> calls[i].ID, type |-> "function",
         function |-> [name |-> calls[i].Name,
                       arguments |-> MarshalMap(calls[i].Parameters)]]]

\* A chat-completions message; tool_call_id and tool_calls are left out of
\* the JSON when empty.
ChatMessage(role, content, id, calls) ==
    [fields |-> {"role", "content"}
                    \cup (IF id # "" THEN {"tool_call_id"} ELSE {})
                    \cup (IF calls # <<>> THEN {"tool_calls"} ELSE {}),
     role |-> role, content |-> content, tool_call_id |-> id, tool_calls |-> calls]

MistralConvertMessage(msg) ==
    CASE msg.Role = "assistant" ->
            ChatMessage("assistant", msg.Content, "", FunctionCallsOf(msg.ToolCalls))
      [] msg.Role = "tool" -> ChatMessage("tool", msg.Content, msg.ToolCallID, <<>>)
      [] OTHER -> ChatMessage(msg.Role, msg.Content, "", <<>>)

MistralConvertMessages(messages) ==
    [i \in 1..Len(messages) |-> MistralConvertMessage(messages[i])]

MistralConvertTools(tools) ==
    [i \in 1..Len(tools) |->
        [type |-> "function",
         function |-> [name |-> tools[i].Name, description |-> tools[i].Description,
                       parameters |-> tools[i].Parameters]]]

\* mistralRequest as Chat fills it, then json.Marshal: tools and tool_choice
\* are omitempty.
MistralRequest(c, messages, tools) ==
    LET reqTools == IF Len(tools) > 0 THEN MistralConvertTools(tools) ELSE <<>>
        reqChoice == IF Len(tools) > 0 THEN "auto" ELSE ""
    IN Wire({"model", "messages", "temperature", "top_p", "max_tokens"}
                \cup (IF Len(reqTools) > 0 THEN {"tools"} ELSE {})
                \cup (IF reqChoice # "" THEN {"tool_choice"} ELSE {}),
            c.model, "", MistralConvertMessages(messages), reqTools, reqChoice)

\* The openai-go message constructors; an assistant message with tool calls
\* is built from the tool calls alone.
OpenAIConvertMessage(msg) ==
    CASE msg.Role = "assistant" /\ Len(msg.ToolCalls) > 0 ->
            [fields |-> {"role", "tool_calls"}, role |-> "assistant", content |-> "",
             tool_call_id |-> "", tool_calls |-> FunctionCallsOf(msg.ToolCalls)]
      [] msg.Role = "tool" ->
            [fields |-> {"role", "content", "tool_call_id"}, role |-> "tool",
             content |-> msg.Content, tool_call_id |-> msg.ToolCallID, tool_calls |-> <<>>]
      [] OTHER ->
            [fields |-> {"role", "content"}, role |-> msg.Role, content |-> msg.Content,
             tool_call_id |-> "", tool_calls |-> <<>>]

OpenAIConvertTools(tools) ==
    [i \in 1..Len(tools) |->
        [type |-> "function",
         function |-> [name |-> tools[i].Name, description |-> tools[i].Description,
                       parameters |-> tools[i].Parameters]]]

OpenAIRequest(c, messages, tools) ==
    LET openaiTools == OpenAIConvertTools(tools)
    IN Wire({"model", "messages"} \cup (IF Len(openaiTools) > 0 THEN {"tools"} ELSE {}),
            "gpt-4o", "",
            [i \in 1..Len(messages) |-> OpenAIConvertMessage(messages[i])],
            IF Len(openaiTools) > 0 THEN openaiTools ELSE <<>>, "")

\* A messages-API message: content is a string, or a list of typed blocks.
TextContent(role, text) == [role |-> role, kind |-> "text", text |-> text, blocks |-> <<>>]
BlockContent(role, blocks) == [role |-> role, kind |-> "blocks", text |-> "", blocks |-> blocks]
ToolResultBlock(id, content) ==
    [type |-> "tool_result", text |-> "", tool_use_id |-> id, content |-> content,
     id |-> "", name |-> "", input |-> <<>>]
WireTextBlock(text) ==
    [type |-> "text", text |-> text, tool_use_id |-> "", content |-> "",
     id |-> "", name |-> "", input |-> <<>>]
ToolUseBlock(tc) ==
    [type |-> "tool_use", text |-> "", tool_use_id |-> "", content |-> "",
     id |-> tc.ID, name |-> tc.Name, input |-> MarshalMap(tc.Parameters)]

\* A conversion that sends a tool result as plain user text.
AnthropicConvertMessageToolAsText(msg) ==
    IF msg.Role = "tool"
    THEN TextContent("user", msg.Content)
    ELSE IF msg.Role = "assistant" /\ Len(msg.ToolCalls) > 0
    THEN BlockContent(msg.Role,
            (IF msg.Content # "" THEN <<WireTextBlock(msg.Content)>> ELSE <<>>)
                \o [i \in 1..Len(msg.ToolCalls) |-> ToolUseBlock(msg.ToolCalls[i])])
    ELSE TextContent(msg.Role, msg.Content)

AnthropicConvertMessage(msg) ==
    IF msg.Role = "tool"
    THEN BlockContent("user", <<ToolResultBlock(msg.ToolCallID, msg.Content)>>)
    ELSE IF msg.Role = "assistant" /\ Len(msg.ToolCalls) > 0
    THEN BlockContent(msg.Role,
            (IF msg.Content # "" THEN <<WireTextBlock(msg.Content)>> ELSE <<>>)
                \o [i \in 1..Len(msg.ToolCalls) |-> ToolUseBlock(msg.ToolCalls[i])])
    ELSE TextContent(msg.Role, msg.Content)

\* The loop of buildRequest: a system message sets system and is skipped.
RECURSIVE AnthropicMessages(_, _, _)
AnthropicMessages(messages, i, acc) ==
    IF i > Len(messages) THEN acc
    ELSE IF messages[i].Role = "system"
    THEN AnthropicMessages(messages, i + 1, [acc EXCEPT !.system = messages[i].Content])
    ELSE AnthropicMessages(messages, i + 1,
            [acc EXCEPT !.conv = Append(acc.conv, AnthropicConvertMessage(messages[i]))])

AnthropicConvertTools(tools) ==
    [i \in 1..Len(tools) |->
        [name |-> tools[i].Name, description |-> tools[i].Description,
         input_schema |-> tools[i].Parameters]]

\* A buildRequest that sets "tools" whether or not there are tools.
AnthropicBuildRequestAlwaysTools(c, messages, tools) ==
    LET split == AnthropicMessages(messages, 1, [system |-> "", conv |-> <<>>])
    IN Wire({"model", "max_tokens", "messages", "tools"}
                \cup (IF split.system # "" THEN {"system"} ELSE {}),
            c.model, split.system, split.conv, AnthropicConvertTools(tools), "")

AnthropicBuildRequest(c, messages, tools) ==
    LET split == AnthropicMessages(messages, 1, [system |-> "", conv |-> <<>>])
    IN Wire({"model", "max_tokens", "messages"}
                \cup (IF split.system # "" THEN {"system"} ELSE {})
                \cup (IF Len(tools) > 0 THEN {"tools"} ELSE {}),
            c.model, split.system, split.conv,
            IF Len(tools) > 0 THEN AnthropicConvertTools(tools) ELSE <<>>, "")

(***************************************************************************)
(* What a vendor can answer.  Argument payloads are JSON texts: objects in *)
(* either key order, and texts that are no JSON object at all.             *)
(***************************************************************************)
S(k) == Tok("str", k)
N(n) == Tok("num", n)

TextEmptyObject == <<LBrace, RBrace>>
TextSeverity == <<LBrace, S("severity"), Colon, S("CRITICAL"), RBrace>>
TextSeverityLimit ==
    <<LBrace, S("severity"), Colon, S("CRITICAL"), Comma, S("limit"), Colon, N("5"), RBrace>>
TextLimitSeverity ==
    <<LBrace, S("limit"), Colon, N("5"), Comma, S("severity"), Colon, S("CRITICAL"), RBrace>>
TextLimitNull == <<LBrace, S("limit"), Colon, NullTok, RBrace>>
TextDuplicateKey ==
    <<LBrace, S("limit"), Colon, N("5"), Comma, S("limit"), Colon, N("7"), RBrace>>

\* The mapping each well-formed payload denotes.
WellFormedPayloads ==
    { [text |-> TextEmptyObject, kv |-> {}],
      [text |-> TextSeverity, kv |-> {<<"severity", GoStr("CRITICAL")>>}],
      [text |-> TextSeverityLimit,
       kv |-> {<<"severity", GoStr("CRITICAL")>>, <<"limit", GoNum("5")>>}],
      [text |-> TextLimitSeverity,
       kv |-> {<<"severity", GoStr("CRITICAL")>>, <<"limit", GoNum("5")>>}],
      [text |-> TextLimitNull, kv |-> {<<"limit", GoNil>>}] }

TextAbsent == <<>>
TextGarbage == <<BadTok>>
TextTruncated == <<LBrace, S("severity"), Colon>>
TextTrailingComma == <<LBrace, S("severity"), Colon, S("CRITICAL"), Comma, RBrace>>
TextString == <<S("not-json")>>
TextArray == <<LBracket, N("5"), RBracket>>
TextNull == <<NullTok>>

\* Payloads that are not valid JSON for a key-value mapping.
MalformedPayloads ==
    {TextAbsent, TextGarbage, TextTruncated, TextTrailingComma, TextString,
     TextArray, TextNull}

Payloads ==
    {w.text : w \in WellFormedPayloads} \cup MalformedPayloads \cup {TextDuplicateKey}

CallIDs == {"t1", "t2"}
ToolNames == {"queryFindings", "x"}
UsageCounts == {<<5, 7>>, <<3, 0>>}
Texts == {"", "done"}

\* choices[].message.tool_calls[] of the chat-completions vendors.
FunctionCalls ==
    [id : CallIDs, type : {"function"}, function : [name : ToolNames, arguments : Payloads]]
FunctionCallSeqs ==
    {<<>>} \cup {<<c>> : c \in FunctionCalls}
        \cup {p \in FunctionCalls \X {e \in FunctionCalls : e.function.name = "x"} :
                   p[1].id # p[2].id}
AltChoice ==
    [message |-> [content |-> "alt",
                  tool_calls |-> <<[id |-> "t9", type |-> "function",
                                    function |-> [name |-> "x", arguments |-> TextGarbage]]>>]]
ChoiceSeqs ==
    {<<>>}
        \cup UNION {
            {<<[message |-> [content |-> t, tool_calls |-> cs]]>>,
             <<[message |-> [content |-> t, tool_calls |-> cs]], AltChoice>>}
            : t \in Texts, cs \in FunctionCallSeqs}

\* content[] of the messages vendor: text, tool_use and other blocks.
TextBlock(t) == [type |-> "text", text |-> t, id |-> "", name |-> "", input |-> TextAbsent]
OtherBlock == [type |-> "thinking", text |-> "hm", id |-> "", name |-> "", input |-> TextAbsent]
ToolUseBlocks ==
    [type : {"tool_use"}, text : {""}, id : CallIDs, name : ToolNames, input : Payloads]
BlockPrefixes == {<<>>, <<TextBlock("do")>>, <<OtherBlock>>}
BlockInfixes == {<<>>, <<TextBlock("ne")>>}
BlockSeqs ==
    BlockPrefixes
        \cup {p \o <<b>> \o m : p \in BlockPrefixes, b \in ToolUseBlocks, m \in BlockInfixes}
        \cup {<<p[1]>> \o m \o <<p[2]>> :
                   p \in {q \in ToolUseBlocks \X {e \in ToolUseBlocks : e.name = "x"} :
                              q[1].id # q[2].id},
                   m \in BlockInfixes}

\* A reply body: its bytes, whether they are a JSON object, the top-level
\* "message" member, and whether the bytes hold that message unescaped.
CompletionBody(raw, json, choices, u) ==
    [raw |-> raw, json |-> json, message |-> "", verbatim |-> FALSE,
     choices |-> choices,
     usage |-> [prompt_tokens |-> u[1], completion_tokens |-> u[2]]]
MessagesBody(raw, json, content, u) ==
    [raw |-> raw, json |-> json, message |-> "", verbatim |-> FALSE,
     content |-> content,
     usage |-> [input_tokens |-> u[1], output_tokens |-> u[2]]]
ErrorEnvelope(raw, json, message, verbatim) ==
    [raw |-> raw, json |-> json, message |-> message, verbatim |-> verbatim,
     choices |-> <<>>, content |-> <<>>,
     usage |-> [prompt_tokens |-> 0, completion_tokens |-> 0,
                input_tokens |-> 0, output_tokens |-> 0]]

ErrorBodies ==
    { ErrorEnvelope("{\"message\":\"rate limited\"}", TRUE, "rate limited", TRUE),
      ErrorEnvelope("{\"message\":\"rate \\\"limited\\\"\"}", TRUE, "rate \"limited\"", FALSE),
      ErrorEnvelope("{\"message\":\"\"}", TRUE, "", FALSE),
      ErrorEnvelope("Bad Gateway", FALSE, "", FALSE) }
ErrorStatuses == {429, 500}

HTTP(v, status, body) == [vendor |-> v, neterr |-> FALSE, status |-> status, body |-> body]
NetErr(v) ==
    [vendor |-> v, neterr |-> TRUE, status |-> 0, body |-> ErrorEnvelope("", FALSE, "", FALSE)]
NoReply == NetErr("")

Replies ==
    {NetErr(v) : v \in Vendors}
        \cup {HTTP(v, st, b) : v \in Vendors, st \in ErrorStatuses \cup {StatusOK}, b \in ErrorBodies}
        \cup {HTTP(v, StatusOK, CompletionBody("{...}", TRUE, cs, u))
                : v \in {"openai", "mistral"}, cs \in ChoiceSeqs, u \in UsageCounts}
        \cup {HTTP("anthropic", StatusOK, MessagesBody("{...}", TRUE, bs, u))
                : bs \in BlockSeqs, u \in UsageCounts}

(***************************************************************************)
(* The response half of Chat, per adapter.                                 *)
(***************************************************************************)
\* for _, tc := range ...ToolCalls { ... append(response.ToolCalls, ToolCall{...}) }
ParseToolCalls(tcs) ==
    [i \in 1..Len(tcs) |->
        ToolCall(tcs[i].id, tcs[i].function.name, ParseArguments(tcs[i].function.arguments))]

MistralParseResponse(body) ==
    IF Len(body.choices) = 0 THEN ZeroResponse
    ELSE LET choice == body.choices[1]
         IN Response(choice.message.content,
                     ParseToolCalls(choice.message.tool_calls),
                     Usage(body.usage.prompt_tokens, body.usage.completion_tokens))

MistralChatReply(reply) ==
    IF reply.neterr THEN Fail(Error("request failed: %w", 0, "net"))
    ELSE IF reply.status # StatusOK
    THEN (IF reply.body.json /\ reply.body.message # ""
          THEN Fail(Error("(HTTP Error %d) %s", reply.status, reply.body.message))
          ELSE Fail(Error("HTTP %d: %s", reply.status, reply.body.raw)))
    ELSE IF ~reply.body.json THEN Fail(Error("failed to parse response: %w", 0, "json"))
    ELSE Ok(MistralParseResponse(reply.body))

\* The openai-go client does the round trip: it returns an error for a failed
\* request, a non-success status (its error holds the status and the body) and
\* an undecodable body.  Chat then indexes resp.Choices[0] unguarded.
OpenAICompletionsNew(reply) ==
    IF reply.neterr THEN Fail(Error("request failed: %w", 0, "net"))
    ELSE IF reply.status # StatusOK
    THEN Fail(Error("request failed: %w", reply.status, reply.body.raw))
    ELSE IF ~reply.body.json THEN Fail(Error("request failed: %w", 0, "json"))
    ELSE Ok(ZeroResponse)

OpenAIChatReply(reply) ==
    LET sdk == OpenAICompletionsNew(reply)
    IN IF sdk.kind = "err" THEN sdk
       ELSE IF Len(reply.body.choices) = 0 THEN Panic
       ELSE LET choice == reply.body.choices[1]
            IN Ok(Response(choice.message.content,
                           ParseToolCalls(choice.message.tool_calls),
                           Usage(reply.body.usage.prompt_tokens,
                                 reply.body.usage.completion_tokens)))

\* json.Unmarshal(body, &apiResp): the body is a JSON object, and every
\* "input" member in it (kept as json.RawMessage) is itself valid JSON.
MessagesBodyDecodes(body) ==
    /\ body.json
    /\ \A i \in 1..Len(body.content) :
          body.content[i].input = TextAbsent \/ ValidJSON(body.content[i].input)

RECURSIVE AnthropicBlocks(_, _, _)
AnthropicBlocks(blocks, i, resp) ==
    IF i > Len(blocks) THEN resp
    ELSE LET block == blocks[i]
         IN CASE block.type = "text" ->
                    AnthropicBlocks(blocks, i + 1,
                        [resp EXCEPT !.Content = resp.Content \o block.text])
              [] block.type = "tool_use" ->
                    AnthropicBlocks(blocks, i + 1,
                        [resp EXCEPT !.ToolCalls =
                            Append(resp.ToolCalls,
                                   ToolCall(block.id, block.name, ParseArguments(block.input)))])
              [] OTHER -> AnthropicBlocks(blocks, i + 1, resp)

\* A parse that gives up on the first tool_use block whose input is no object.
AnthropicParseResponseBodyStrict(body) ==
    IF ~MessagesBodyDecodes(body) THEN Fail(Error("failed to parse response: %w", 0, "json"))
    ELSE IF \E i \in 1..Len(body.content) :
                body.content[i].type = "tool_use" /\ UnmarshalMap(body.content[i].input).err
    THEN Fail(Error("failed to parse tool input: %w", 0, "json"))
    ELSE Ok(AnthropicBlocks(body.content, 1,
                Response("", <<>>, Usage(body.usage.input_tokens, body.usage.output_tokens))))

AnthropicParseResponseBody(body) ==
    IF ~MessagesBodyDecodes(body) THEN Fail(Error("failed to parse response: %w", 0, "json"))
    ELSE Ok(AnthropicBlocks(body.content, 1,
                Response("", <<>>, Usage(body.usage.input_tokens, body.usage.output_tokens))))

AnthropicChatReply(reply) ==
    IF reply.neterr THEN Fail(Error("request failed: %w", 0, "net"))
    ELSE IF reply.status # StatusOK
    THEN Fail(Error("API error (status %d): %s", reply.status, reply.body.raw))
    ELSE AnthropicParseResponseBody(reply.body)

ChatReply(reply) ==
    CASE reply.vendor = "anthropic" -> AnthropicChatReply(reply)
      [] reply.vendor = "openai" -> OpenAIChatReply(reply)
      [] OTHER -> MistralChatReply(reply)

(***************************************************************************)
(* Chat under a context that is done while the vendor call is in flight.   *)
(* The request is bound to ctx: the round trip returns ctx's error when    *)
(* the signal fires before the response head is in ("do"), and the read of *)
(* the body returns it when it fires after ("read").                       *)
(***************************************************************************)
Stages == {"do", "read"}
CtxErrs == {"context canceled", "context deadline exceeded"}

\* A Chat that takes a body cut short by the signal for a whole one.
AnthropicChatCancelledReadIgnored(stage, cause) ==
    IF stage = "do" THEN Fail(Error("request failed: %w", 0, cause))
    ELSE Ok(ZeroResponse)

AnthropicChatCancelled(stage, cause) ==
    IF stage = "do" THEN Fail(Error("request failed: %w", 0, cause))
    ELSE Fail(Error("failed to read response: %w", 0, cause))

MistralChatCancelled(stage, cause) ==
    IF stage = "do" THEN Fail(Error("request failed: %w", 0, cause))
    ELSE Fail(Error("failed to read response: %w", 0, cause))

\* The openai-go client does the round trip and the read under ctx.
OpenAIChatCancelled(stage, cause) == Fail(Error("request failed: %w", 0, cause))

ChatCancelled(v, stage, cause) ==
    CASE v = "anthropic" -> AnthropicChatCancelled(stage, cause)
      [] v = "openai" -> OpenAIChatCancelled(stage, cause)
      [] OTHER -> MistralChatCancelled(stage, cause)

(***************************************************************************)
(* The session before any user line.                                       *)
(***************************************************************************)
NoOutcome == [kind |-> "", usage |-> Usage(0, 0), answer |-> ""]

LoopIdle ==
    /\ conv = <<>> /\ cumUsage = Usage(0, 0)
    /\ phase = "Idle" /\ cap = 1 /\ turns = 0
    /\ pending = <<>> /\ results = <<>>
    /\ outcome = NoOutcome /\ runStart = 0
    /\ runLog = <<>> /\ usageLog = <<>>
    /\ nCalls = 0 /\ runs = 0 /\ event = ""

(***************************************************************************)
(* Spec: Chat from the HTTP reply on.                                      *)
(***************************************************************************)
Init ==
    /\ httpReply \in Replies
    /\ result = NoResult
    /\ env = FullEnv /\ client = ClientOf(httpReply.vendor) /\ newErr = ""
    /\ chatIn = NoCall /\ request = NoRequest
    /\ LoopIdle

AnthropicReceive ==
    /\ httpReply.vendor = "anthropic" /\ result.kind = "none"
    /\ result' = AnthropicChatReply(httpReply)
    /\ UNCHANGED <<env, client, newErr, chatIn, request, httpReply, loopVars>>

OpenAIReceive ==
    /\ httpReply.vendor = "openai" /\ result.kind = "none"
    /\ result' = OpenAIChatReply(httpReply)
    /\ UNCHANGED <<env, client, newErr, chatIn, request, httpReply, loopVars>>

MistralReceive ==
    /\ httpReply.vendor = "mistral" /\ result.kind = "none"
    /\ result' = MistralChatReply(httpReply)
    /\ UNCHANGED <<env, client, newErr, chatIn, request, httpReply, loopVars>>

Next == AnthropicReceive \/ OpenAIReceive \/ MistralReceive

Spec == Init /\ [][Next]_vars

(***************************************************************************)
(* The vendor's side of a reply, for stating what Chat must return.        *)
(***************************************************************************)
\* The reply has a success status and a body that decodes.
Decoded(reply) ==
    /\ ~reply.neterr /\ reply.status = StatusOK
    /\ IF reply.vendor = "anthropic"
       THEN reply.body.json
            /\ \A i \in 1..Len(reply.body.content) :
                  LET b == reply.body.content[i]
                  IN b.input = TextAbsent \/ b.input \notin {TextGarbage, TextTruncated, TextTrailingComma}
       ELSE reply.body.json

\* Positions of the tool_use blocks of a messages body, in order.
RECURSIVE ToolUsePositions(_, _)
ToolUsePositions(content, i) ==
    IF i > Len(content) THEN <<>>
    ELSE IF content[i].type = "tool_use" THEN <<i>> \o ToolUsePositions(content, i + 1)
    ELSE ToolUsePositions(content, i + 1)

\* The tool calls the vendor sent, in the vendor's order: those of the first
\* choice (chat completions) or the tool_use blocks (messages).
VendorCalls(reply) ==
    IF reply.vendor = "anthropic"
    THEN LET pos == ToolUsePositions(reply.body.content, 1)
         IN [i \in 1..Len(pos) |->
                [id |-> reply.body.content[pos[i]].id,
                 name |-> reply.body.content[pos[i]].name,
                 payload |-> reply.body.content[pos[i]].input]]
    ELSE IF Len(reply.body.choices) = 0 THEN <<>>
    ELSE LET tcs == reply.body.choices[1].message.tool_calls
         IN [i \in 1..Len(tcs) |->
                [id |-> tcs[i].id, name |-> tcs[i].function.name,
                 payload |-> tcs[i].function.arguments]]

\* The same reply with the payload of its i-th tool call replaced.
WithPayload(reply, i, text) ==
    IF reply.vendor = "anthropic"
    THEN LET k == ToolUsePositions(reply.body.content, 1)[i]
         IN [reply EXCEPT !.body.content[k].input = text]
    ELSE [reply EXCEPT !.body.choices[1].message.tool_calls[i].function.arguments = text]

VendorUsage(reply) ==
    IF reply.vendor = "anthropic"
    THEN Usage(reply.body.usage.input_tokens, reply.body.usage.output_tokens)
    ELSE Usage(reply.body.usage.prompt_tokens, reply.body.usage.completion_tokens)

(***************************************************************************)
(* C1: a tool call whose argument payload is not valid JSON for a mapping  *)
(* does not fail Chat: the call is returned with its id and name and an    *)
(* empty parameter mapping, and the content, the usage and the other tool  *)
(* calls are those of the same reply with that payload well formed.        *)
(***************************************************************************)
C1_MalformedArgumentsRecovered ==
    (result.kind # "none" /\ Decoded(httpReply)) =>
        LET vc == VendorCalls(httpReply)
        IN \A i \in 1..Len(vc) :
              vc[i].payload \in MalformedPayloads =>
                 LET fixed == ChatReply(WithPayload(httpReply, i, TextSeverity))
                     got == result.resp.ToolCalls
                 IN /\ result.kind = "ok"
                    /\ Len(got) = Len(vc)
                    /\ got[i].ID = vc[i].id
                    /\ got[i].Name = vc[i].name
                    /\ MapLen(got[i].Parameters) = 0
                    /\ fixed.kind = "ok"
                    /\ fixed.resp.Content = result.resp.Content
                    /\ fixed.resp.Usage = result.resp.Usage
                    /\ Len(fixed.resp.ToolCalls) = Len(got)
                    /\ \A j \in 1..Len(got) : j # i => fixed.resp.ToolCalls[j] = got[j]
                    /\ fixed.resp.ToolCalls[i] =
                          ToolCall(vc[i].id, vc[i].name,
                                   MakeMap({<<"severity", GoStr("CRITICAL")>>}))

\* A reply whose first tool call has a malformed payload and whose second has
\* two parameters has been decoded.
C1_Witness ==
    /\ result.kind = "ok" /\ Decoded(httpReply)
    /\ Len(VendorCalls(httpReply)) = 2
    /\ VendorCalls(httpReply)[1].payload \in MalformedPayloads
    /\ Len(result.resp.ToolCalls) = 2
    /\ MapLen(result.resp.ToolCalls[1].Parameters) = 0
    /\ MapLen(result.resp.ToolCalls[2].Parameters) = 2
    /\ result.resp.Content # ""

\* The tool calls an adapter decodes from its own outbound form of an
\* assistant message holding `calls`.
Reparsed(v, calls) ==
    LET msg == Message("assistant", "", "", calls)
    IN CASE v = "anthropic" ->
               AnthropicParseResponseBody(
                   MessagesBody("", TRUE, AnthropicConvertMessage(msg).blocks, <<0, 0>>)
               ).resp.ToolCalls
         [] v = "openai" ->
               OpenAIChatReply(
                   HTTP(v, StatusOK,
                        CompletionBody("", TRUE,
                            <<[message |-> [content |-> "",
                                            tool_calls |-> OpenAIConvertMessage(msg).tool_calls]]>>,
                            <<0, 0>>))
               ).resp.ToolCalls
         [] OTHER ->
               MistralParseResponse(
                   CompletionBody("", TRUE,
                       <<[message |-> [content |-> "",
                                       tool_calls |-> MistralConvertMessage(msg).tool_calls]]>>,
                       <<0, 0>>)
               ).ToolCalls

WellFormed(reply) ==
    \A i \in 1..Len(VendorCalls(reply)) :
        \E w \in WellFormedPayloads : VendorCalls(reply)[i].payload = w.text

\* The mapping a well-formed payload denotes.
Denoted(text) == (CHOOSE w \in WellFormedPayloads : w.text = text).kv

(***************************************************************************)
(* C5: from a well-formed vendor response Chat returns one ToolCall per    *)
(* vendor tool call, in the vendor's order, each with the vendor's id,     *)
(* name and parameter mapping; and a returned ToolCall that is written the *)
(* way the adapter writes an outbound assistant message and parsed the way *)
(* it parses a response comes back with the same id, name and mapping.     *)
(***************************************************************************)
C5_ToolCallsRoundTrip ==
    result.kind = "ok" =>
        LET vc == VendorCalls(httpReply)
            got == result.resp.ToolCalls
        IN /\ WellFormed(httpReply) =>
                 /\ Len(got) = Len(vc)
                 /\ \A i \in 1..Len(vc) :
                       got[i] = ToolCall(vc[i].id, vc[i].name, MakeMap(Denoted(vc[i].payload)))
           /\ Len(got) > 0 => Reparsed(httpReply.vendor, got) = got

\* Two well-formed tool calls have been decoded, the first with its keys in
\* the order json.Marshal would not write them.
C5_Witness ==
    /\ result.kind = "ok" /\ WellFormed(httpReply)
    /\ Len(result.resp.ToolCalls) = 2
    /\ VendorCalls(httpReply)[1].payload = TextSeverityLimit
    /\ MapLen(result.resp.ToolCalls[1].Parameters) = 2
    /\ MapLen(result.resp.ToolCalls[2].Parameters) = 1
    /\ Reparsed(httpReply.vendor, result.resp.ToolCalls) = result.resp.ToolCalls

(***************************************************************************)
(* C8 (as claimed): a non-success status makes Chat return an error that   *)
(* carries the status code, and the message of the vendor's error envelope *)
(* when the body has one, else the raw body.  An error carries the message *)
(* when its text is the message, or is the raw body and the raw body holds *)
(* the message unescaped.                                                  *)
(***************************************************************************)
C8_ErrorCarriesStatusAndMessage ==
    (result.kind # "none" /\ ~httpReply.neterr /\ httpReply.status # StatusOK) =>
        /\ result.kind = "err"
        /\ result.err.status = httpReply.status
        /\ IF httpReply.body.json /\ httpReply.body.message # ""
           THEN \/ result.err.detail = httpReply.body.message
                \/ result.err.detail = httpReply.body.raw /\ httpReply.body.verbatim
           ELSE result.err.detail = httpReply.body.raw

(***************************************************************************)
(* C10 (as claimed): whenever Chat returns a Response, its Usage holds the *)
(* input and output token counts the vendor reported, whatever the number  *)
(* of choices or content blocks.                                           *)
(***************************************************************************)
C10_UsageIsVendorReported ==
    result.kind = "ok" => result.resp.Usage = VendorUsage(httpReply)

(***************************************************************************)
(* SpecNew: the three constructors, over every environment.                *)
(***************************************************************************)
InitNew ==
    /\ env \in [CredVars -> EnvValues]
    /\ client = NoClient /\ newErr = ""
    /\ chatIn = NoCall /\ request = NoRequest
    /\ httpReply = NoReply /\ result = NoResult
    /\ LoopIdle

Unbuilt == client = NoClient /\ newErr = ""

ConstructAnthropic ==
    /\ Unbuilt
    /\ \E model \in Models :
          LET r == NewAnthropicClient(env, model)
          IN client' = r.client /\ newErr' = r.err
    /\ UNCHANGED <<env, chatIn, request, httpReply, result, loopVars>>

ConstructMistral ==
    /\ Unbuilt
    /\ \E model \in Models :
          LET r == NewMistralClient(env, model)
          IN client' = r.client /\ newErr' = r.err
    /\ UNCHANGED <<env, chatIn, request, httpReply, result, loopVars>>

ConstructOpenAI ==
    /\ Unbuilt
    /\ LET r == NewOpenAIClient(env)
       IN client' = r.client /\ newErr' = r.err
    /\ UNCHANGED <<env, chatIn, request, httpReply, result, loopVars>>

NextNew == ConstructAnthropic \/ ConstructMistral \/ ConstructOpenAI

SpecNew == InitNew /\ [][NextNew]_vars

(***************************************************************************)
(* C9 (as claimed): no constructor returns a client when its vendor's      *)
(* credential is unset or empty, it returns a configuration error; and     *)
(* with the credential present it returns a client.                        *)
(***************************************************************************)
C9_NoClientWithoutCredential ==
    \A v \in Vendors :
        /\ client.vendor = v => Getenv(env, CredVar(v)) # "" /\ newErr = ""
        /\ newErr = NotSet(CredVar(v)) => Getenv(env, CredVar(v)) = "" /\ client = NoClient

(***************************************************************************)
(* SpecEncode: the request each adapter puts on the wire, over message and *)
(* tool sequences.                                                         *)
(***************************************************************************)
MaxMsgs == 3

SeqsUpTo(set, n) == UNION {[1..k -> set] : k \in 0..n}

Severity == MakeMap({<<"severity", GoStr("CRITICAL")>>})
SeverityLimit == MakeMap({<<"severity", GoStr("CRITICAL")>>, <<"limit", GoNum("5")>>})

MessageAlphabet ==
    { Message("system", "be brief", "", <<>>),
      Message("system", "use the tools", "", <<>>),
      Message("user", "hello", "", <<>>),
      Message("assistant", "hi", "", <<>>),
      Message("assistant", "", "", <<ToolCall("t1", "queryFindings", Severity)>>),
      Message("assistant", "checking", "",
              <<ToolCall("t1", "queryFindings", SeverityLimit), ToolCall("t2", "x", NilMap)>>),
      Message("tool", "3 findings", "t1", <<>>),
      Message("tool", "tool unavailable", "t2", <<>>) }

QueryFindingsTool == Tool("queryFindings", "Query findings", "schema:severity,limit")
XTool == Tool("x", "", "schema:none")
ToolSeqs == {<<>>, <<QueryFindingsTool>>, <<QueryFindingsTool, XTool>>, <<XTool, QueryFindingsTool>>}

InitEncode ==
    /\ chatIn \in [vendor : Vendors, messages : SeqsUpTo(MessageAlphabet, MaxMsgs),
                   tools : ToolSeqs]
    /\ request = NoRequest
    /\ env = FullEnv /\ client = ClientOf(chatIn.vendor) /\ newErr = ""
    /\ httpReply = NoReply /\ result = NoResult
    /\ LoopIdle

AnthropicSend ==
    /\ chatIn.vendor = "anthropic" /\ request = NoRequest
    /\ request' = AnthropicBuildRequest(client, chatIn.messages, chatIn.tools)
    /\ UNCHANGED <<env, client, newErr, chatIn, httpReply, result, loopVars>>

OpenAISend ==
    /\ chatIn.vendor = "openai" /\ request = NoRequest
    /\ request' = OpenAIRequest(client, chatIn.messages, chatIn.tools)
    /\ UNCHANGED <<env, client, newErr, chatIn, httpReply, result, loopVars>>

MistralSend ==
    /\ chatIn.vendor = "mistral" /\ request = NoRequest
    /\ request' = MistralRequest(client, chatIn.messages, chatIn.tools)
    /\ UNCHANGED <<env, client, newErr, chatIn, httpReply, result, loopVars>>

NextEncode == AnthropicSend \/ OpenAISend \/ MistralSend

SpecEncode == InitEncode /\ [][NextEncode]_vars

\* A tool declaration on the wire, as the canonical Tool it carries.
DeclaredTool(v, d) ==
    IF v = "anthropic" THEN Tool(d.name, d.description, d.input_schema)
    ELSE Tool(d.function.name, d.function.description, d.function.parameters)

(***************************************************************************)
(* C4: with no Tool the outbound request has no tools member at all; with  *)
(* Tools it has a tools member holding one declaration per Tool, in order, *)
(* with that Tool's name, description and parameter schema.                *)
(***************************************************************************)
C4_ToolsOmittedOrDeclared ==
    request # NoRequest =>
        IF chatIn.tools = <<>>
        THEN "tools" \notin request.fields
        ELSE /\ "tools" \in request.fields
             /\ Len(request.tools) = Len(chatIn.tools)
             /\ \A i \in 1..Len(chatIn.tools) :
                   DeclaredTool(chatIn.vendor, request.tools[i]) = chatIn.tools[i]

\* A request without tools has been built for a conversation of three messages.
C4_Witness ==
    /\ request # NoRequest
    /\ chatIn.tools = <<>>
    /\ Len(chatIn.messages) = 3 /\ Len(request.messages) >= 2
    /\ request.fields # {} /\ "tools" \notin request.fields

(***************************************************************************)
(* SpecLoop: the agent loop and the interactive session around it.  The    *)
(* provider is a Client: a call returns a Response or an error.            *)
(*   AwaitingModel -> (ToolCallsPending -> Executing -> AwaitingModel)*    *)
(*                 -> Finished | Exhausted | Failed                        *)
(***************************************************************************)
MaxCap == 2
MaxRuns == 2

Registry == {"queryFindings", "querySummary"}

\* What dispatch folds back into the conversation for one tool call.
HandlerOutput(tc) ==
    IF tc.Name \in Registry THEN "result of " \o tc.Name
    ELSE "tool unavailable: " \o tc.Name

\* The vendor names every tool call afresh.
CallID(n, k) == "call-" \o ToString(n) \o "-" \o ToString(k)

\* What the n-th provider call of the session can answer.
ProviderResponses(n) ==
    { Response("answer", <<>>, Usage(2, 1)),
      Response("", <<ToolCall(CallID(n, 1), "queryFindings", Severity)>>, Usage(3, 1)),
      Response("checking",
               <<ToolCall(CallID(n, 1), "querySummary", EmptyMap),
                 ToolCall(CallID(n, 2), "deleteCluster", EmptyMap)>>,
               Usage(1, 2)) }

AddUsageToolTurnsSkipped(u, resp) ==
    IF resp.ToolCalls # <<>> THEN u
    ELSE Usage(u.InputTokens + resp.Usage.InputTokens,
               u.OutputTokens + resp.Usage.OutputTokens)

\* Usage is accumulated additively after every provider call.
AddUsage(u, resp) ==
    Usage(u.InputTokens + resp.Usage.InputTokens,
          u.OutputTokens + resp.Usage.OutputTokens)

RECURSIVE RunUsage(_)
RunUsage(log) ==
    IF log = <<>> THEN Usage(0, 0)
    ELSE AddUsage(RunUsage(SubSeq(log, 1, Len(log) - 1)), log[Len(log)])

AfterTurnOneMore(t, k) == IF t > k THEN "Exhausted" ELSE "AwaitingModel"

\* The loop's state after its t-th tool-calling turn, under cap k.
AfterTurn(t, k) == IF t >= k THEN "Exhausted" ELSE "AwaitingModel"

ToolMessagesAsFinished(calls, done) ==
    [j \in 1..Len(done) |-> Message("tool", done[j][2], calls[done[j][1]].ID, <<>>)]

\* One tool message per call, in the order the calls were received; `done`
\* holds <<position, result>> in the order the handlers finished.
ToolMessages(calls, done) ==
    [i \in 1..Len(calls) |->
        LET j == CHOOSE x \in 1..Len(done) : done[x][1] = i
        IN Message("tool", done[j][2], calls[i].ID, <<>>)]

FailureOutcomeNoUsage(log) == [kind |-> "Failed", usage |-> Usage(0, 0), answer |-> ""]

\* What a failed run reports: the error, with the Usage of its earlier turns.
FailureOutcome(log) == [kind |-> "Failed", usage |-> RunUsage(log), answer |-> ""]

Resting == phase \in {"Idle", "Finished", "Exhausted", "Failed"}

InitLoop ==
    /\ env = FullEnv /\ client \in {ClientOf(v) : v \in Vendors} /\ newErr = ""
    /\ chatIn = NoCall /\ request = NoRequest
    /\ httpReply = NoReply /\ result = NoResult
    /\ conv = <<>> /\ cumUsage = Usage(0, 0)
    /\ phase = "Idle" /\ cap \in 1..MaxCap /\ turns = 0
    /\ pending = <<>> /\ results = <<>>
    /\ outcome = NoOutcome /\ runStart = 0
    /\ runLog = <<>> /\ usageLog = <<>>
    /\ nCalls = 0 /\ runs = 0 /\ event = ""

\* A user line starts a run on the history plus the new user message.
Ask ==
    /\ Resting /\ runs < MaxRuns
    /\ conv' = Append(conv, Message("user", "question", "", <<>>))
    /\ runStart' = Len(conv) + 1
    /\ phase' = "AwaitingModel" /\ turns' = 0
    /\ pending' = <<>> /\ results' = <<>>
    /\ outcome' = NoOutcome /\ runLog' = <<>>
    /\ runs' = runs + 1 /\ event' = "ask"
    /\ UNCHANGED <<chatVars, cumUsage, cap, usageLog, nCalls>>

\* The provider call returns a Response.
ModelReturns ==
    /\ phase = "AwaitingModel"
    /\ \E resp \in ProviderResponses(nCalls + 1) :
          /\ cumUsage' = AddUsage(cumUsage, resp)
          /\ usageLog' = Append(usageLog, resp.Usage)
          /\ runLog' = Append(runLog, resp)
          /\ conv' = Append(conv, Message("assistant", resp.Content, "", resp.ToolCalls))
          /\ pending' = resp.ToolCalls
          /\ IF resp.ToolCalls = <<>>
             THEN /\ phase' = "Finished"
                  /\ outcome' = [kind |-> "Finished", usage |-> RunUsage(runLog'),
                                 answer |-> resp.Content]
             ELSE /\ phase' = "ToolCallsPending"
                  /\ outcome' = outcome
    /\ nCalls' = nCalls + 1 /\ results' = <<>> /\ event' = "response"
    /\ UNCHANGED <<chatVars, cap, turns, runStart, runs>>

\* The provider call returns an error: the run is over.
ModelFails ==
    /\ phase = "AwaitingModel"
    /\ phase' = "Failed"
    /\ outcome' = FailureOutcome(runLog)
    /\ nCalls' = nCalls + 1 /\ event' = "error"
    /\ UNCHANGED <<chatVars, conv, cumUsage, cap, turns, pending, results, runStart,
                   runLog, usageLog, runs>>

\* The cancellation/timeout signal fires while the provider call is in
\* flight: the call returns what Chat returns under a done context, and the
\* loop takes an error as ModelFails does, a Response as ModelReturns does.
SignalFires ==
    /\ phase = "AwaitingModel"
    /\ \E stage \in Stages, cause \in CtxErrs :
          result' = ChatCancelled(client.vendor, stage, cause)
    /\ IF result'.kind = "err"
       THEN /\ phase' = "Failed"
            /\ outcome' = FailureOutcome(runLog)
            /\ UNCHANGED <<conv, cumUsage, pending, runLog, usageLog>>
       ELSE /\ cumUsage' = AddUsage(cumUsage, result'.resp)
            /\ usageLog' = Append(usageLog, result'.resp.Usage)
            /\ runLog' = Append(runLog, result'.resp)
            /\ conv' = Append(conv, Message("assistant", result'.resp.Content, "",
                                            result'.resp.ToolCalls))
            /\ pending' = result'.resp.ToolCalls
            /\ phase' = IF pending' = <<>> THEN "Finished" ELSE "ToolCallsPending"
            /\ outcome' = [kind |-> "Finished", usage |-> RunUsage(runLog'),
                           answer |-> result'.resp.Content]
    /\ nCalls' = nCalls + 1 /\ event' = "cancel"
    /\ UNCHANGED <<env, client, newErr, chatIn, request, httpReply, cap, turns,
                   results, runStart, runs>>

\* Every tool call of the turn is handed to its handler.
Dispatch ==
    /\ phase = "ToolCallsPending"
    /\ phase' = "Executing" /\ event' = "dispatch"
    /\ UNCHANGED <<chatVars, conv, cumUsage, cap, turns, pending, results, outcome,
                   runStart, runLog, usageLog, nCalls, runs>>

\* One handler finishes; the handlers of a turn finish in any order.
ToolFinishes ==
    /\ phase = "Executing"
    /\ \E i \in 1..Len(pending) :
          /\ \A j \in 1..Len(results) : results[j][1] # i
          /\ results' = Append(results, <<i, HandlerOutput(pending[i])>>)
    /\ event' = "tool"
    /\ UNCHANGED <<chatVars, conv, cumUsage, phase, cap, turns, pending, outcome,
                   runStart, runLog, usageLog, nCalls, runs>>

\* All results are in: they are appended, and the turn is counted.
AppendResults ==
    /\ phase = "Executing" /\ Len(results) = Len(pending)
    /\ conv' = conv \o ToolMessages(pending, results)
    /\ turns' = turns + 1
    /\ phase' = AfterTurn(turns + 1, cap)
    /\ outcome' = IF phase' = "Exhausted"
                  THEN [kind |-> "Exhausted", usage |-> RunUsage(runLog), answer |-> ""]
                  ELSE outcome
    /\ event' = "append"
    /\ UNCHANGED <<chatVars, cumUsage, cap, pending, results, runStart, runLog,
                   usageLog, nCalls, runs>>

\* The explicit reset command.
Clear ==
    /\ Resting
    /\ conv' = <<>> /\ cumUsage' = Usage(0, 0)
    /\ phase' = "Idle" /\ turns' = 0
    /\ pending' = <<>> /\ results' = <<>>
    /\ outcome' = NoOutcome /\ runStart' = 0
    /\ runLog' = <<>> /\ usageLog' = <<>>
    /\ event' = "clear"
    /\ UNCHANGED <<chatVars, cap, nCalls, runs>>

\* The explicit quit command ends the session.
Quit ==
    /\ Resting
    /\ phase' = "Ended" /\ event' = "quit"
    /\ UNCHANGED <<chatVars, conv, cumUsage, cap, turns, pending, results, outcome,
                   runStart, runLog, usageLog, nCalls, runs>>

LoopStep == ModelReturns \/ ModelFails \/ Dispatch \/ ToolFinishes \/ AppendResults

NextLoop == Ask \/ LoopStep \/ SignalFires \/ Clear \/ Quit

\* A blocking provider call returns and a dispatched handler finishes.
SpecLoop == InitLoop /\ [][NextLoop]_vars /\ WF_vars(LoopStep)

AllToolRun == \A i \in 1..Len(runLog) : runLog[i].ToolCalls # <<>>

RECURSIVE CallsRequested(_)
CallsRequested(log) ==
    IF log = <<>> THEN 0
    ELSE CallsRequested(Tail(log)) + Len(Head(log).ToolCalls)

\* The tool-role messages appended since the run began.
ToolMessagesOfRun ==
    Cardinality({i \in (runStart + 1)..Len(conv) : conv[i].Role = "tool"})

Terminal == phase \in {"Finished", "Exhausted", "Failed", "Idle", "Ended"}

(***************************************************************************)
(* C2: a run under turn cap K whose every Response asks for tools ends     *)
(* Exhausted after exactly K provider calls: a call is only ever issued    *)
(* with fewer than K made, the run never ends Finished, it is Exhausted    *)
(* once K Responses are served, and by then one tool message per requested *)
(* call has been appended (one message for K = 1 and one call); and every  *)
(* run does end.                                                           *)
(***************************************************************************)
C2_ExhaustedAfterExactlyCapTurns ==
    /\ [](/\ Len(runLog) <= cap
          /\ phase = "AwaitingModel" => Len(runLog) < cap
          /\ (AllToolRun /\ runLog # <<>>) => phase # "Finished"
          /\ (AllToolRun /\ Len(runLog) = cap /\ phase \notin {"ToolCallsPending", "Executing"})
                => outcome.kind = "Exhausted"
          /\ phase = "Exhausted" =>
                /\ Len(runLog) = cap /\ turns = cap /\ AllToolRun
                /\ outcome.kind = "Exhausted"
                /\ ToolMessagesOfRun = CallsRequested(runLog)
                /\ (cap = 1 /\ Len(runLog[1].ToolCalls) = 1) => ToolMessagesOfRun = 1)
    /\ (phase \in {"AwaitingModel", "ToolCallsPending", "Executing"}) ~> Terminal

\* A run under cap 1 with one tool call has ended Exhausted.
C2_Witness ==
    /\ phase = "Exhausted" /\ cap = 1
    /\ Len(runLog) = 1 /\ Len(runLog[1].ToolCalls) = 1
    /\ ToolMessagesOfRun = 1

(***************************************************************************)
(* C3: when a provider call is issued after a Response with tool calls,    *)
(* the conversation holds exactly one tool message per call of that        *)
(* Response, carrying the call's id; these are the last messages, in the   *)
(* order the calls were received, whatever the order the handlers finished *)
(* in, and a call to an unknown tool has an 'unavailable' result.          *)
(***************************************************************************)
C3_ResultsAppendedBeforeNextCall ==
    (phase = "AwaitingModel" /\ runLog # <<>>) =>
        LET last == runLog[Len(runLog)].ToolCalls
            n == Len(last)
        IN /\ n > 0
           /\ \A i \in 1..n :
                 /\ Cardinality({k \in 1..Len(conv) :
                        conv[k].Role = "tool" /\ conv[k].ToolCallID = last[i].ID}) = 1
                 /\ conv[Len(conv) - n + i].Role = "tool"
                 /\ conv[Len(conv) - n + i].ToolCallID = last[i].ID
                 /\ last[i].Name \notin Registry =>
                       conv[Len(conv) - n + i].Content = "tool unavailable: " \o last[i].Name
                 /\ last[i].Name \in Registry =>
                       conv[Len(conv) - n + i].Content = "result of " \o last[i].Name

\* The next call is due after a turn whose second handler finished first.
C3_Witness ==
    /\ phase = "AwaitingModel" /\ runLog # <<>>
    /\ Len(runLog[Len(runLog)].ToolCalls) = 2
    /\ Len(results) = 2 /\ results[1][1] = 2
    /\ conv[Len(conv)].Content = "tool unavailable: deleteCluster"

RECURSIVE SumUsage(_)
SumUsage(log) ==
    IF log = <<>> THEN Usage(0, 0)
    ELSE LET rest == SumUsage(Tail(log))
         IN Usage(Head(log).InputTokens + rest.InputTokens,
                  Head(log).OutputTokens + rest.OutputTokens)

(***************************************************************************)
(* C6: the cumulative Usage is the sum of the Usage of every Response      *)
(* received since the session began or was last cleared, tool-only turns   *)
(* included; clear sets it to {0,0} and empties the messages; and no other *)
(* step makes it smaller.                                                  *)
(***************************************************************************)
C6_CumulativeUsageAdditive ==
    /\ [](/\ cumUsage = SumUsage(usageLog)
          /\ event = "clear" => cumUsage = Usage(0, 0) /\ conv = <<>>)
    /\ [][event' # "clear" =>
            /\ cumUsage'.InputTokens >= cumUsage.InputTokens
            /\ cumUsage'.OutputTokens >= cumUsage.OutputTokens]_vars

\* Two Responses have been received since a clear, the first asking only
\* for tools.
C6_Witness ==
    /\ Len(usageLog) = 2 /\ nCalls > 2
    /\ Len(runLog) = 2 /\ runLog[1].Content = "" /\ runLog[1].ToolCalls # <<>>
    /\ cumUsage = Usage(5, 2)

(***************************************************************************)
(* C7: a provider error ends the run in Failed at that turn: the failing   *)
(* step changes neither the messages nor the cumulative Usage, the run's   *)
(* report is the failure with the Usage of its earlier turns, and from     *)
(* Failed the only steps are those of the user (a new line, clear, quit):  *)
(* no provider call and no tool dispatch.                                  *)
(***************************************************************************)
C7_ProviderErrorEndsRun ==
    /\ [](phase = "Failed" =>
            /\ outcome.kind = "Failed"
            /\ outcome.usage = SumUsage([i \in 1..Len(runLog) |-> runLog[i].Usage])
            /\ cumUsage = SumUsage(usageLog))
    /\ [][/\ event' = "error" => conv' = conv /\ cumUsage' = cumUsage
          /\ phase = "Failed" => event' \in {"ask", "clear", "quit", "error"}
          /\ (phase = "Failed" /\ event' = "error") => UNCHANGED vars]_vars

\* The second provider call of a run has failed after a tool-calling turn.
C7_Witness ==
    /\ phase = "Failed" /\ event = "error"
    /\ Len(runLog) = 1 /\ outcome.usage = Usage(3, 1)
    /\ ToolMessagesOfRun = 1

(***************************************************************************)
(* C11: when the cancellation/timeout signal fires while a vendor call is  *)
(* in flight, that Chat call returns an error and no Response, whichever   *)
(* adapter made it and whether the signal came before or after the         *)
(* response head; the messages after the cancelled turn are the messages   *)
(* before its provider call, so the run holds no tool message beyond those *)
(* of its completed turns.                                                 *)
(***************************************************************************)
C11_CancelledCallLeavesConversation ==
    /\ [](event = "cancel" =>
            /\ result.kind = "err" /\ result.resp = ZeroResponse
            /\ result.err.detail \in CtxErrs
            /\ phase = "Failed"
            /\ ToolMessagesOfRun = CallsRequested(runLog))
    /\ [][event' = "cancel" =>
            /\ phase = "AwaitingModel"
            /\ conv' = conv /\ pending' = pending /\ cumUsage' = cumUsage]_vars

\* The second provider call of a run was cancelled while its body was read,
\* after a turn of two tool calls.
C11_Witness ==
    /\ event = "cancel" /\ phase = "Failed"
    /\ result.err.format = "failed to read response: %w"
    /\ Len(runLog) = 1 /\ Len(runLog[1].ToolCalls) = 2
    /\ ToolMessagesOfRun = 2

(***************************************************************************)
(* Positions of the system messages of an input sequence.                  *)
(***************************************************************************)
SystemPositions(messages) == {i \in 1..Len(messages) : messages[i].Role = "system"}

FirstSystem(messages) ==
    LET first == CHOOSE i \in SystemPositions(messages) :
                    \A j \in SystemPositions(messages) : i <= j
    IN messages[first].Content

(***************************************************************************)
(* C12: the Anthropic adapter's request has no system-role entry in its    *)
(* messages, and its top-level system member holds the content of the      *)
(* first (or only) system message of the input, being absent when there is *)
(* none; the OpenAI and Mistral adapters send every system message inline, *)
(* with role "system", at the position it had in the input.                *)
(***************************************************************************)
C12_SystemTopLevelOrInline ==
    request # NoRequest =>
        IF chatIn.vendor = "anthropic"
        THEN /\ \A i \in 1..Len(request.messages) : request.messages[i].role # "system"
             /\ IF SystemPositions(chatIn.messages) = {}
                THEN "system" \notin request.fields
                ELSE /\ "system" \in request.fields
                     /\ request.system = FirstSystem(chatIn.messages)
        ELSE /\ Len(request.messages) = Len(chatIn.messages)
             /\ \A i \in SystemPositions(chatIn.messages) :
                   /\ request.messages[i].role = "system"
                   /\ request.messages[i].content = chatIn.messages[i].Content

(***************************************************************************)
(* C13: the OpenAI and Mistral adapters, whose request shape has a         *)
(* tool_choice member, send tool_choice = "auto" in every request made     *)
(* with at least one Tool, and neither tool_choice nor tools in a request  *)
(* made with none.                                                         *)
(***************************************************************************)
C13_ToolChoiceAutoWithTools ==
    (request # NoRequest /\ chatIn.vendor \in {"openai", "mistral"}) =>
        IF Len(chatIn.tools) > 0
        THEN "tool_choice" \in request.fields /\ request.tool_choice = "auto"
        ELSE "tool_choice" \notin request.fields /\ "tools" \notin request.fields

(***************************************************************************)
(* Where the i-th input message is on the wire: the Anthropic adapter      *)
(* skips system messages, the other two convert message by message.        *)
(***************************************************************************)
OutPos(v, messages, i) ==
    IF v = "anthropic"
    THEN Cardinality({j \in 1..i : messages[j].Role # "system"})
    ELSE i

\* An outbound message that hands a tool result back.
CarriesToolResult(v, o) ==
    IF v = "anthropic"
    THEN o.kind = "blocks" /\ \E k \in 1..Len(o.blocks) : o.blocks[k].type = "tool_result"
    ELSE o.role = "tool"

(***************************************************************************)
(* C14: for every tool-role Message of the input there is exactly one      *)
(* outbound message, at the same relative position, that carries the       *)
(* Message's toolCallID unchanged and its content: for Anthropic a         *)
(* user-role message holding one tool_result block whose tool_use_id is    *)
(* the toolCallID, for OpenAI and Mistral a message with role "tool" whose *)
(* tool_call_id is the toolCallID.                                         *)
(***************************************************************************)
C14_ToolResultsCarried ==
    request # NoRequest =>
        LET v == chatIn.vendor
            in == chatIn.messages
            toolPos == {i \in 1..Len(in) : in[i].Role = "tool"}
        IN /\ Len(request.messages) = OutPos(v, in, Len(in))
           /\ Cardinality({k \in 1..Len(request.messages) :
                              CarriesToolResult(v, request.messages[k])})
                 = Cardinality(toolPos)
           /\ \A i \in toolPos :
                 LET o == request.messages[OutPos(v, in, i)]
                 IN IF v = "anthropic"
                    THEN /\ o.role = "user" /\ o.kind = "blocks" /\ Len(o.blocks) = 1
                         /\ o.blocks[1].type = "tool_result"
                         /\ o.blocks[1].tool_use_id = in[i].ToolCallID
                         /\ o.blocks[1].content = in[i].Content
                    ELSE /\ o.role = "tool"
                         /\ "tool_call_id" \in o.fields
                         /\ o.tool_call_id = in[i].ToolCallID
                         /\ o.content = in[i].Content

\* The Anthropic request for a system message, an assistant message and the
\* result of call t2 holds that result second.
C14_Witness ==
    /\ request # NoRequest /\ chatIn.vendor = "anthropic"
    /\ Len(chatIn.messages) = 3
    /\ chatIn.messages[1].Role = "system" /\ chatIn.messages[2].Role = "assistant"
    /\ chatIn.messages[3].Role = "tool" /\ chatIn.messages[3].ToolCallID = "t2"
    /\ Len(request.messages) = 2
    /\ request.messages[2].blocks[1].tool_use_id = "t2"

\* The choices (OpenAI, Mistral) or content blocks (Anthropic) of a reply.
ReplyItems(reply) ==
    IF reply.vendor = "anthropic" THEN reply.body.content ELSE reply.body.choices

(***************************************************************************)
(* C15: a Chat call whose vendor reply has a success status and a          *)
(* decodable body returns normally, with a Response or with an error and   *)
(* never a crash; when the body carries no choices (OpenAI, Mistral) or no *)
(* content blocks (Anthropic) it returns a Response with empty content and *)
(* no tool calls.                                                          *)
(***************************************************************************)
C15_SuccessReplyReturnsNormally ==
    (/\ result.kind # "none"
     /\ ~httpReply.neterr /\ httpReply.status = StatusOK /\ httpReply.body.json) =>
        /\ result.kind \in {"ok", "err"}
        /\ ReplyItems(httpReply) = <<>> =>
              /\ result.kind = "ok"
              /\ result.resp.Content = "" /\ result.resp.ToolCalls = <<>>

\* The tool calls an outbound assistant message carries, as ToolCalls.
CarriedCalls(v, o) ==
    IF v = "anthropic"
    THEN LET uses == SelectSeq(o.blocks, LAMBDA b : b.type = "tool_use")
         IN [k \in 1..Len(uses) |->
                ToolCall(uses[k].id, uses[k].name, ParseArguments(uses[k].input))]
    ELSE [k \in 1..Len(o.tool_calls) |->
            ToolCall(o.tool_calls[k].id, o.tool_calls[k].function.name,
                     ParseArguments(o.tool_calls[k].function.arguments))]

\* The content text an outbound assistant message carries.
CarriedText(v, o) ==
    IF v = "anthropic"
    THEN (IF o.kind = "text" THEN o.text
          ELSE IF \E k \in 1..Len(o.blocks) : o.blocks[k].type = "text"
          THEN SelectSeq(o.blocks, LAMBDA b : b.type = "text")[1].text
          ELSE "")
    ELSE IF "content" \in o.fields THEN o.content ELSE ""

(***************************************************************************)
(* C16: for every assistant Message of the input that has both content and *)
(* tool calls, the outbound request's corresponding assistant message      *)
(* carries the content text and every tool call (id, name, parameters) in  *)
(* the original order: nothing of the message is dropped when it is sent   *)
(* back to the vendor.                                                     *)
(***************************************************************************)
C16_AssistantContentAndCallsKept ==
    request # NoRequest =>
        LET v == chatIn.vendor
            in == chatIn.messages
        IN \A i \in 1..Len(in) :
              (in[i].Role = "assistant" /\ in[i].Content # "" /\ Len(in[i].ToolCalls) > 0) =>
                  LET o == request.messages[OutPos(v, in, i)]
                  IN /\ o.role = "assistant"
                     /\ CarriedCalls(v, o) = in[i].ToolCalls
                     /\ CarriedText(v, o) = in[i].Content

====
